---- MODULE Spec2Model ----
(***************************************************************************)
(* podtrack: the transcript/timing alignment code of apps/articles.        *)
(*                                                                         *)
(* Texts are sequences of one-character strings, so that slicing, joining, *)
(* lower() and the difflib similarity ratio work on characters as in the   *)
(* Python code.  Times are integers in hundredths of a second.  A ratio is *)
(* a reduced fraction <<numerator, denominator>> with denominator > 0.     *)
(***************************************************************************)
EXTENDS Integers, Sequences, FiniteSets, TLC

VARIABLES
    pc,             \* position of the modelled call
    sentence,       \* match_sentences: the transcript sentence (characters)
    nlp,            \* the loaded spaCy model: which lemmas it reduces
    target_tokens,  \* find_matching_span argument
    segments,       \* find_matching_span argument: the WordSegment list
    min_ratio,      \* find_matching_span argument
    window_size,    \* find_matching_span argument
    best_match,     \* find_matching_span return value
    evaluated,      \* the windows <<i, j>> whose ratio the search computed
    min_ratio2,     \* threshold of the second run on the same inputs
    best_match2,    \* return value of the second run
    whisper_segments, \* _segment_into_sentences argument
    impl,           \* which _segment_into_sentences ran
    doc_text,       \* the text handed to the sentence splitter
    doc_sents,      \* doc.sents: the <<start_char, end_char>> spans
    sentences,      \* _segment_into_sentences return value
    word_text,      \* the gate's argument
    doc_views,      \* self.nlp(cleaned word) inside ArticleViewSet._filter_word
    doc_tasks,      \* nlp(word) inside WordProcessService.filter_word
    decision_views, \* return value of ArticleViewSet._filter_word
    decision_tasks, \* return value of WordProcessService.filter_word
    nlp_calls,      \* the texts the gates handed to spaCy, with the caller
    stored_views,   \* Word.lemma values ArticleViewSet.create stored
    stored_tasks,   \* Word.lemma values analyze_article stored
    timings_header, \* the column names of the timings file
    timings_rows,   \* the rows of the timings file, each a list of cells
    load_result,    \* what load_word_segments returned or raised
    transcript,     \* match_sentences argument: the sentences
    results,        \* match_sentences return value
    _nlp,           \* WordProcessService._nlp: 0 for None, else the instance
    thread_pc,      \* where each worker thread is inside _get_nlp
    thread_nlp,     \* the instance the last _get_nlp of each thread returned
    thread_calls,   \* how many _get_nlp calls each thread has finished
    loads,          \* how many times _get_nlp ran spacy.load
    analyzer_loads, \* how many times an upload request loaded the models
    db,             \* the database: the rows of each table
    requests,       \* the HTTP requests in progress, by thread
    log,            \* the last operation that ended: what it did and saw
    started         \* how many operations have started

alignerVars == <<sentence, nlp, target_tokens, segments, min_ratio,
                 window_size, best_match, evaluated, min_ratio2, best_match2>>

mapperVars == <<whisper_segments, impl, doc_text, doc_sents, sentences>>

gateVars == <<word_text, doc_views, doc_tasks, decision_views,
              decision_tasks, nlp_calls, stored_views, stored_tasks>>

loaderVars == <<timings_header, timings_rows, load_result>>

matchVars == <<transcript, results>>

modelVars == <<_nlp, thread_pc, thread_nlp, thread_calls, loads,
               analyzer_loads>>

storeVars == <<db, requests, log, started>>

vars == <<pc, alignerVars, mapperVars, gateVars, loaderVars, matchVars,
          modelVars, storeVars>>

----------------------------------------------------------------------------
(* Bounds of the model *)

MaxSegs == 3        \* longest token stream of the generic inputs
MaxTarget == 2      \* longest target token list of the generic inputs
MaxWindow == 3      \* largest window_size of the generic inputs
MaxWords == 3       \* most words of a transcription
MaxSents == 2       \* most sentences the splitter reports
MaxWordLen == 3     \* longest string handed to the word filter
MaxRows == 2        \* most rows of a timings file
MaxSentences == 3   \* most sentences of a transcript
MaxThreads == 2     \* worker threads that run tasks
MaxCalls == 2       \* most _get_nlp calls of one thread
MaxUploads == 2     \* most upload requests
MaxTime == 1        \* latest start or end time of a timed token
MaxTimed == 2       \* most tokens of a timed token list
MaxRequests == 2    \* requests served at the same time
MaxOps == 3         \* most requests, task runs and toggles of a run

----------------------------------------------------------------------------
(* Generic helpers *)

Min(a, b) == IF a < b THEN a ELSE b

RECURSIVE GCD(_, _)
GCD(a, b) == IF b = 0 THEN a ELSE GCD(b, a % b)

\* the fraction n/d (d > 0) in lowest terms
Rat(n, d) ==
    IF n = 0 THEN <<0, 1>>
    ELSE LET g == GCD(IF n < 0 THEN -n ELSE n, d) IN <<n \div g, d \div g>>

RatGT(a, b) == a[1] * b[2] > b[1] * a[2]

RatGE(a, b) == a[1] * b[2] >= b[1] * a[2]

\* Python None
None == [none |-> TRUE]

\* Python s[lo:hi] for lo, hi >= 0 (0-based, end exclusive, clamped to len(s))
Slice(s, lo, hi) ==
    IF Min(hi, Len(s)) <= lo THEN <<>> ELSE SubSeq(s, lo + 1, Min(hi, Len(s)))

UpperChars == <<"A", "B", "C", "S", "T", "U", "W">>

LowerChars == <<"a", "b", "c", "s", "t", "u", "w">>

\* str.lower() on one character
LowerChar(c) ==
    IF \E k \in DOMAIN UpperChars : UpperChars[k] = c
    THEN LowerChars[CHOOSE k \in DOMAIN UpperChars : UpperChars[k] = c]
    ELSE c

\* str.lower()
Lower(s) == [k \in DOMAIN s |-> LowerChar(s[k])]

\* ' '.join(words)
RECURSIVE JoinSpace(_)
JoinSpace(words) ==
    IF words = <<>> THEN <<>>
    ELSE IF Len(words) = 1 THEN words[1]
    ELSE words[1] \o <<" ">> \o JoinSpace(Tail(words))

\* str.strip() for the whitespace of the model, the space character
RECURSIVE LStrip(_)
LStrip(s) == IF s # <<>> /\ s[1] = " " THEN LStrip(Tail(s)) ELSE s

RECURSIVE RStrip(_)
RStrip(s) ==
    IF s # <<>> /\ s[Len(s)] = " " THEN RStrip(SubSeq(s, 1, Len(s) - 1)) ELSE s

Strip(s) == RStrip(LStrip(s))

----------------------------------------------------------------------------
(* difflib.SequenceMatcher(None, a, b).ratio(), for texts below the 200    *)
(* characters at which difflib's autojunk heuristic starts.                *)

\* length of the common run of a from i and b from j (0-based)
RECURSIVE CommonLen(_, _, _, _, _, _)
CommonLen(a, b, i, j, ahi, bhi) ==
    IF i < ahi /\ j < bhi /\ a[i + 1] = b[j + 1]
    THEN 1 + CommonLen(a, b, i + 1, j + 1, ahi, bhi)
    ELSE 0

SetMin(S) == CHOOSE x \in S : \A y \in S : x <= y

SetMax(S) == CHOOSE x \in S : \A y \in S : y <= x

\* the length of the common run from every pair of equal characters of
\* a[alo:ahi] and b[blo:bhi]
BlockLens(a, b, alo, ahi, blo, bhi) ==
    [p \in {q \in (alo .. ahi - 1) \X (blo .. bhi - 1) :
               a[q[1] + 1] = b[q[2] + 1]}
        |-> CommonLen(a, b, p[1], p[2], ahi, bhi)]

\* of the blocks that start at position i of a, the one earliest in b
EarliestInB(blocks, i, k) == <<i, SetMin({p[2] : p \in {q \in blocks : q[1] = i}}), k>>

\* of the blocks of the maximal length k, the one earliest in a, then in b
EarliestBlock(len, k) ==
    EarliestInB({p \in DOMAIN len : len[p] = k},
                SetMin({p[1] : p \in {q \in DOMAIN len : len[q] = k}}), k)

PickBlock(len, alo, blo) ==
    IF DOMAIN len = {} THEN <<alo, blo, 0>>
    ELSE EarliestBlock(len, SetMax({len[p] : p \in DOMAIN len}))

\* find_longest_match: <<i, j, k>> with a[i:i+k] = b[j:j+k], k maximal, the
\* earliest such block in a and, among those, the earliest in b
FindLongestMatch(a, b, alo, ahi, blo, bhi) ==
    PickBlock(BlockLens(a, b, alo, ahi, blo, bhi), alo, blo)

\* get_matching_blocks: the total size of the longest block m and of the
\* blocks found, recursively, to its left and to its right
RECURSIVE MatchedSize(_, _, _, _, _, _)
RECURSIVE MatchedAround(_, _, _, _, _, _, _)
MatchedAround(a, b, alo, ahi, blo, bhi, m) ==
    IF m[3] = 0 THEN 0
    ELSE m[3]
         + (IF alo < m[1] /\ blo < m[2]
            THEN MatchedSize(a, b, alo, m[1], blo, m[2]) ELSE 0)
         + (IF m[1] + m[3] < ahi /\ m[2] + m[3] < bhi
            THEN MatchedSize(a, b, m[1] + m[3], ahi, m[2] + m[3], bhi) ELSE 0)

MatchedSize(a, b, alo, ahi, blo, bhi) ==
    MatchedAround(a, b, alo, ahi, blo, bhi,
                  FindLongestMatch(a, b, alo, ahi, blo, bhi))

\* calculate_edit_distance_ratio: 2.0 * matches / length, 1.0 for two empty
\* texts
calculate_edit_distance_ratio(text1, text2) ==
    LET length == Len(text1) + Len(text2)
    IN  IF length = 0 THEN <<1, 1>>
        ELSE Rat(2 * MatchedSize(text1, text2, 0, Len(text1), 0, Len(text2)),
                 length)

----------------------------------------------------------------------------
(* SentenceMatcher.get_normalized_tokens.  The spaCy pipeline is modelled  *)
(* by a whitespace/punctuation tokenizer, spaCy's English stop words that  *)
(* occur in the texts of the model, and a lemmatizer that may or may not   *)
(* reduce "united" and "states" (nlp records which).                       *)

PunctChars == {".", ":", ","}

Vocabulary ==
    [the |-> <<"t", "h", "e">>,
     is |-> <<"i", "s">>,
     a |-> <<"a">>,
     it |-> <<"i", "t">>,
     has |-> <<"h", "a", "s">>,
     united |-> <<"u", "n", "i", "t", "e", "d">>,
     unite |-> <<"u", "n", "i", "t", "e">>,
     states |-> <<"s", "t", "a", "t", "e", "s">>,
     state |-> <<"s", "t", "a", "t", "e">>,
     country |-> <<"c", "o", "u", "n", "t", "r", "y">>,
     fifty |-> <<"f", "i", "f", "t", "y">>,
     capital |-> <<"c", "a", "p", "i", "t", "a", "l">>]

StopWords == {Vocabulary.the, Vocabulary.is, Vocabulary.a, Vocabulary.it, Vocabulary.has}

\* re.sub(r'^[^:]+:', '', text): drop a leading run of one or more
\* non-colon characters together with the colon that ends it
StripSpeaker(text) ==
    LET colons == {k \in DOMAIN text : text[k] = ":"}
    IN  IF colons = {} THEN text
        ELSE LET p == CHOOSE k \in colons : \A m \in colons : k <= m
             IN  IF p >= 2 THEN SubSeq(text, p + 1, Len(text)) ELSE text

\* self.nlp(text): the tokens of the doc are the runs of word characters and
\* the single punctuation characters of text, in order
IsWordChar(c) == c # " " /\ c \notin PunctChars

\* the positions (1-based) at which a token of text starts: a punctuation
\* character, or a word character that does not continue a word
TokenStarts(text) ==
    {k \in DOMAIN text :
        \/ text[k] \in PunctChars
        \/ IsWordChar(text[k]) /\ (k = 1 \/ ~IsWordChar(text[k - 1]))}

\* the position of the last character of the token that starts at k
TokenEnd(text, k) ==
    IF text[k] \in PunctChars THEN k
    ELSE SetMax({m \in k .. Len(text) :
                    \A n \in k .. m : IsWordChar(text[n])})

\* the k-th smallest element of a set of numbers
Nth(S, k) == CHOOSE x \in S : Cardinality({y \in S : y < x}) = k - 1

Tokenize(text) ==
    [k \in 1 .. Cardinality(TokenStarts(text)) |->
        SubSeq(text, Nth(TokenStarts(text), k),
               TokenEnd(text, Nth(TokenStarts(text), k)))]

is_punct(token) == Len(token) = 1 /\ token[1] \in PunctChars

is_stop(token) == token \in StopWords

lemma_(token, model) ==
    IF token = Vocabulary.united /\ model.united THEN Vocabulary.unite
    ELSE IF token = Vocabulary.states /\ model.states THEN Vocabulary.state
    ELSE token

get_normalized_tokens(text, model) ==
    LET cleaned == Lower(Strip(StripSpeaker(text)))
        doc == Tokenize(cleaned)
        kept == SelectSeq(doc, LAMBDA t : ~is_stop(t) /\ ~is_punct(t))
    IN  [k \in DOMAIN kept |-> lemma_(kept[k], model)]

----------------------------------------------------------------------------
(* SentenceMatcher.find_matching_span *)

\* the input validation: "if not target_tokens or not segments"
EmptyInputAnd(targetTokens, segs) == targetTokens = <<>> /\ segs = <<>>

EmptyInput(targetTokens, segs) == targetTokens = <<>> \/ segs = <<>>

\* the stop value of "range(i + 1, min(i + window_size, len(segments) + 1))"
RangeStop(i, windowSize, n) == Min(i + windowSize, n + 1)

\* ' '.join(seg.text.lower() for seg in segments[i:j])
WindowText(segs, i, j) ==
    JoinSpace([k \in 1 .. (j - i) |-> Lower(segs[i + k].text)])

\* the match recorded for the window segments[i:j], whose first segment is
\* segments[i] and whose last is segments[j-1] (0-based)
MatchOfFirstEnd(segs, i, j, ratio) ==
    [start |-> segs[i + 1].start, end |-> segs[i + 1].end, ratio |-> ratio]

MatchOfSwapped(segs, i, j, ratio) ==
    [start |-> segs[j].start, end |-> segs[i + 1].end, ratio |-> ratio]

MatchOf(segs, i, j, ratio) ==
    [start |-> segs[i + 1].start, end |-> segs[j].end, ratio |-> ratio]

\* "if ratio > best_ratio"
ImprovesOrTies(ratio, bestRatio) == RatGE(ratio, bestRatio)

Improves(ratio, bestRatio) == RatGT(ratio, bestRatio)

\* the loop state st is <<best_ratio, best_match, windows evaluated>>
Evaluated(st, i, j) == st[3] \cup {<<i, j>>}

\* the inner loop leaving a start index at the first window below min_ratio
RECURSIVE InnerLoopPruned(_, _, _, _, _, _, _)
RECURSIVE InnerLoop(_, _, _, _, _, _, _)

\* the body of the inner loop after the ratio is computed, and the rest of
\* the loop
Consider(targetText, segs, minRatio, i, j, stop, st, ratio) ==
    IF Improves(ratio, st[1])
    THEN InnerLoop(targetText, segs, minRatio, i, j + 1, stop,
                   <<ratio, MatchOf(segs, i, j, ratio), Evaluated(st, i, j)>>)
    ELSE InnerLoop(targetText, segs, minRatio, i, j + 1, stop,
                   <<st[1], st[2], Evaluated(st, i, j)>>)

ConsiderUnlessBelow(targetText, segs, minRatio, i, j, stop, st, ratio) ==
    IF RatGT(minRatio, ratio) THEN <<st[1], st[2], Evaluated(st, i, j)>>
    ELSE Consider(targetText, segs, minRatio, i, j, stop, st, ratio)

InnerLoopPruned(targetText, segs, minRatio, i, j, stop, st) ==
    IF j >= stop THEN st
    ELSE ConsiderUnlessBelow(targetText, segs, minRatio, i, j, stop, st,
                             calculate_edit_distance_ratio(
                                 targetText, WindowText(segs, i, j)))

\* "for j in range(i + 1, stop)" from j on
InnerLoop(targetText, segs, minRatio, i, j, stop, st) ==
    IF j >= stop THEN st
    ELSE Consider(targetText, segs, minRatio, i, j, stop, st,
                  calculate_edit_distance_ratio(
                      targetText, WindowText(segs, i, j)))

RECURSIVE OuterLoop(_, _, _, _, _, _)

\* the outer loop taking the start indices from the last to the first
OuterLoopDescending(targetText, segs, minRatio, windowSize, i, st) ==
    IF i >= Len(segs) THEN st
    ELSE OuterLoop(targetText, segs, minRatio, windowSize, i + 1,
                   InnerLoop(targetText, segs, minRatio, Len(segs) - 1 - i,
                             Len(segs) - i,
                             RangeStop(Len(segs) - 1 - i, windowSize,
                                       Len(segs)), st))

\* "for i in range(len(segments))" from i on
OuterLoop(targetText, segs, minRatio, windowSize, i, st) ==
    IF i >= Len(segs) THEN st
    ELSE OuterLoop(targetText, segs, minRatio, windowSize, i + 1,
                   InnerLoop(targetText, segs, minRatio, i, i + 1,
                             RangeStop(i, windowSize, Len(segs)), st))

\* a search that starts from the best ratio the previous call found
InitialStateKept(minRatio) ==
    <<IF best_match = None THEN minRatio ELSE best_match.ratio, None, {}>>

\* "best_match = None; best_ratio = min_ratio"
InitialState(minRatio) == <<minRatio, None, {}>>

\* the return value and the set of windows whose ratio was computed
SearchResult(st) == [match |-> st[2], evaluated |-> st[3]]

find_matching_span(targetTokens, segs, minRatio, windowSize) ==
    IF EmptyInput(targetTokens, segs)
    THEN [match |-> None, evaluated |-> {}]
    ELSE SearchResult(OuterLoop(JoinSpace(targetTokens), segs, minRatio,
                                windowSize, 0, InitialState(minRatio)))

----------------------------------------------------------------------------
(* Inputs *)

SeqsUpTo(S, n) == UNION {[1 .. k -> S] : k \in 0 .. n}

\* token texts and normalized target words of the generic inputs
SegTexts == {<<"a", "b">>, <<"B">>}

TargetWords == {<<"a", "b">>, <<"c">>}

MinRatios == {<<-1, 2>>, <<1, 2>>, <<2, 3>>, <<1, 1>>}

\* the k-th token of a generic stream lasts from 10k to 10k+8
GenericSegments(texts) ==
    [k \in DOMAIN texts |->
        [text |-> texts[k], start |-> 10 * k, end |-> 10 * k + 8, conf |-> 1]]

\* defaults of find_matching_span
DefaultMinRatio == <<1, 2>>

DefaultWindowSize == 10

\* the fixture of test_full_matching
TestSentence ==
    <<"T", "h", "e", " ", "U", "n", "i", "t", "e", "d",
       " ", "S", "t", "a", "t", "e", "s", " ", "i", "s",
       " ", "a", " ", "c", "o", "u", "n", "t", "r", "y",
       "." >>

\* the text of test_token_normalization
TestNormalizationText ==
    <<"T", "h", "e", " ", "U", "n", "i", "t", "e", "d",
       " ", "S", "t", "a", "t", "e", "s", ":", " ", "i",
       "s", " ", "a", " ", "c", "o", "u", "n", "t", "r",
       "y" >>

TestData ==
    << [text |-> Vocabulary.the, start |-> 9, end |-> 24, conf |-> 1],
       [text |-> Vocabulary.united, start |-> 24, end |-> 63, conf |-> 1],
       [text |-> Vocabulary.states, start |-> 63, end |-> 117, conf |-> 1],
       [text |-> Vocabulary.is, start |-> 123, end |-> 141, conf |-> 1],
       [text |-> Vocabulary.a, start |-> 141, end |-> 189, conf |-> 1],
       [text |-> Vocabulary.country, start |-> 189, end |-> 234, conf |-> 1],
       [text |-> Vocabulary.it, start |-> 234, end |-> 278, conf |-> 1],
       [text |-> Vocabulary.has, start |-> 278, end |-> 312, conf |-> 1],
       [text |-> Vocabulary.fifty, start |-> 312, end |-> 345, conf |-> 1],
       [text |-> Vocabulary.states, start |-> 345, end |-> 389, conf |-> 1],
       [text |-> Vocabulary.the, start |-> 389, end |-> 423, conf |-> 1],
       [text |-> Vocabulary.capital, start |-> 423, end |-> 467, conf |-> 1] >>

ScenarioLen == 6

\* the values of the variables of the operations a specification leaves out
MapperIdle ==
    /\ whisper_segments = <<>>
    /\ impl = "none"
    /\ doc_text = <<>>
    /\ doc_sents = <<>>
    /\ sentences = <<>>

GateIdle ==
    /\ word_text = <<>>
    /\ doc_views = <<>>
    /\ doc_tasks = <<>>
    /\ decision_views = <<>>
    /\ decision_tasks = <<>>
    /\ nlp_calls = {}
    /\ stored_views = {}
    /\ stored_tasks = {}

LoaderIdle ==
    /\ timings_header = <<>>
    /\ timings_rows = <<>>
    /\ load_result = <<>>

MatchIdle ==
    /\ transcript = <<>>
    /\ results = <<>>

ModelIdle ==
    /\ _nlp = 0
    /\ thread_pc = <<>>
    /\ thread_nlp = <<>>
    /\ thread_calls = <<>>
    /\ loads = 0
    /\ analyzer_loads = 0

\* an empty database, no request in progress
EmptyDb ==
    [articles |-> {}, sentences |-> {}, words |-> {}, links |-> {},
     items |-> {},
     seq |-> [article |-> 0, sentence |-> 0, word |-> 0, item |-> 0]]

NoLog == [op |-> "none"]

StoreIdle ==
    /\ db = EmptyDb
    /\ requests = <<>>
    /\ log = NoLog
    /\ started = 0

OthersIdle == LoaderIdle /\ MatchIdle /\ ModelIdle /\ StoreIdle

AlignerIdle ==
    /\ sentence = <<>>
    /\ nlp = [united |-> FALSE, states |-> FALSE]
    /\ target_tokens = <<>>
    /\ segments = <<>>
    /\ min_ratio = <<1, 2>>
    /\ window_size = 10
    /\ best_match = None
    /\ evaluated = {}
    /\ min_ratio2 = <<1, 2>>
    /\ best_match2 = None

InitGeneric ==
    /\ pc = "ready"
    /\ sentence = <<>>
    /\ nlp = [united |-> FALSE, states |-> FALSE]
    /\ target_tokens \in SeqsUpTo(TargetWords, MaxTarget)
    /\ \E texts \in SeqsUpTo(SegTexts, MaxSegs) :
           segments = GenericSegments(texts)
    /\ min_ratio \in MinRatios
    /\ window_size \in 1 .. MaxWindow
    /\ best_match = None
    /\ evaluated = {}
    /\ min_ratio2 = min_ratio
    /\ best_match2 = None
    /\ MapperIdle
    /\ GateIdle
    /\ OthersIdle

InitScenario ==
    /\ pc = "sentence"
    /\ sentence = TestSentence
    /\ nlp \in [united : BOOLEAN, states : BOOLEAN]
    /\ target_tokens = <<>>
    /\ \E n \in ScenarioLen .. Len(TestData) : segments = SubSeq(TestData, 1, n)
    /\ min_ratio = DefaultMinRatio
    /\ window_size = DefaultWindowSize
    /\ best_match = None
    /\ evaluated = {}
    /\ min_ratio2 = min_ratio
    /\ best_match2 = None
    /\ MapperIdle
    /\ GateIdle
    /\ OthersIdle

\* the text of test_token_normalization, over the first tokens of the
\* fixture
InitNormalization ==
    /\ pc = "sentence"
    /\ sentence = TestNormalizationText
    /\ nlp \in [united : BOOLEAN, states : BOOLEAN]
    /\ target_tokens = <<>>
    /\ segments = SubSeq(TestData, 1, ScenarioLen)
    /\ min_ratio = DefaultMinRatio
    /\ window_size = DefaultWindowSize
    /\ best_match = None
    /\ evaluated = {}
    /\ min_ratio2 = min_ratio
    /\ best_match2 = None
    /\ MapperIdle
    /\ GateIdle
    /\ OthersIdle

Init == InitGeneric \/ InitScenario \/ InitNormalization

----------------------------------------------------------------------------
(* Operations *)

\* match_sentences: tokens = self.get_normalized_tokens(sentence)
NormalizeSentence ==
    /\ pc = "sentence"
    /\ target_tokens' = get_normalized_tokens(sentence, nlp)
    /\ pc' = "ready"
    /\ UNCHANGED <<loaderVars, matchVars, storeVars, modelVars,
                   sentence, nlp, segments, min_ratio, window_size,
                   best_match, evaluated, min_ratio2, best_match2, mapperVars,
                   gateVars>>

\* one call of find_matching_span
FindMatchingSpan ==
    /\ pc = "ready"
    /\ LET r == find_matching_span(target_tokens, segments, min_ratio,
                                   window_size)
       IN  /\ best_match' = r.match
           /\ evaluated' = r.evaluated
    /\ pc' = "done"
    /\ UNCHANGED <<loaderVars, matchVars, storeVars, modelVars,
                   sentence, nlp, target_tokens, segments, min_ratio,
                   window_size, min_ratio2, best_match2, mapperVars, gateVars>>

\* a second call on the same inputs with the same or a higher min_ratio
FindMatchingSpanAgain ==
    /\ pc = "done"
    /\ \E m \in MinRatios :
           /\ RatGE(m, min_ratio)
           /\ min_ratio2' = m
           /\ best_match2' =
                  find_matching_span(target_tokens, segments, m,
                                     window_size).match
    /\ pc' = "redone"
    /\ UNCHANGED <<loaderVars, matchVars, storeVars, modelVars,
                   sentence, nlp, target_tokens, segments, min_ratio,
                   window_size, best_match, evaluated, mapperVars, gateVars>>

Next == NormalizeSentence \/ FindMatchingSpan \/ FindMatchingSpanAgain

Spec == Init /\ [][Next]_vars

----------------------------------------------------------------------------
(* Properties of find_matching_span *)

\* the windows <<i, j>> (tokens[i:j], 0-based, j exclusive) of a stream of n
\* tokens that are at most windowSize tokens wide
WindowsUpTo(n, windowSize) ==
    {w \in (0 .. n - 1) \X (1 .. n) :
        w[1] < w[2] /\ w[2] <= Min(w[1] + windowSize, n)}

\* the similarity of the window w to the target
WindowRatio(w) ==
    calculate_edit_distance_ratio(JoinSpace(target_tokens),
                                  WindowText(segments, w[1], w[2]))

Returned == pc \in {"done", "redone"}

\* C1: after a call on non-empty inputs, every window tokens[i:j] with
\* i < j <= min(i + window_size, n) has been evaluated, the windows of
\* exactly window_size tokens included.
C1_AllWindowsEvaluated ==
    (Returned /\ ~EmptyInput(target_tokens, segments))
        => WindowsUpTo(Len(segments), window_size) \subseteq evaluated

\* C2: for the token stream of test_full_matching (its first six tokens,
\* alone or followed by further ones) and the sentence "The United States
\* is a country.", the match starts at 0.09, the start of "the", ends at
\* 2.34 and has a ratio above 0.5.
C2_ScenarioMatch ==
    (Returned /\ sentence = TestSentence)
        => /\ best_match # None
           /\ best_match.start = 9
           /\ best_match.end = 234
           /\ RatGT(best_match.ratio, <<1, 2>>)

\* the similarity of every evaluated window
Ratios == [w \in evaluated |-> WindowRatio(w)]

SomeAbove(ratios, threshold) ==
    \E w \in DOMAIN ratios : RatGT(ratios[w], threshold)

\* w attains the maximum of ratios
Maximal(ratios, w) == \A v \in DOMAIN ratios : RatGE(ratios[w], ratios[v])

\* match carries the ratio and the times of one window of maximal ratio
FromMaximalWindow(ratios, match) ==
    \E w \in DOMAIN ratios :
        /\ Maximal(ratios, w)
        /\ match.ratio = ratios[w]
        /\ match.start = segments[w[1] + 1].start
        /\ match.end = segments[w[2]].end

C5_Monotone ==
    (pc = "redone" /\ best_match # None
                   /\ RatGT(best_match.ratio, min_ratio2))
        => best_match2 = best_match

C5_Witness ==
    /\ pc = "redone"
    /\ best_match # None
    /\ RatGT(best_match.ratio, min_ratio2)
    /\ RatGT(min_ratio2, min_ratio)
    /\ best_match2 = best_match
    /\ \E v \in evaluated :
           /\ RatGT(WindowRatio(v), min_ratio2)
           /\ RatGT(best_match.ratio, WindowRatio(v))
    /\ \E v \in evaluated :
           /\ RatGT(WindowRatio(v), min_ratio)
           /\ RatGE(min_ratio2, WindowRatio(v))

\* C6: with an empty target token list or an empty token stream the call
\* returns None, whatever min_ratio and window_size are.
C6_EmptyIsNoMatch ==
    (Returned /\ (target_tokens = <<>> \/ segments = <<>>))
        => /\ best_match = None
           /\ pc = "redone" => best_match2 = None

C6_Witness ==
    /\ pc = "done"
    /\ target_tokens = <<>>
    /\ segments # <<>>
    /\ RatGT(<<0, 1>>, min_ratio)
    /\ window_size > 1
    /\ best_match = None

ContentTokens(doc) == SelectSeq(doc, LAMBDA t : ~is_stop(t) /\ ~is_punct(t))

Contains(tokens, token) == \E k \in DOMAIN tokens : tokens[k] = token

\* C18: get_normalized_tokens returns the normalized form of every token
\* of the text that is neither a stop word nor punctuation, also of those
\* before a colon, and returns no stop word.
C18_KeepsContentWords ==
    (pc # "sentence" /\ sentence # <<>>)
        => /\ \A k \in DOMAIN ContentTokens(Tokenize(Lower(Strip(sentence)))) :
                  Contains(target_tokens,
                           lemma_(ContentTokens(
                                      Tokenize(Lower(Strip(sentence))))[k],
                                  nlp))
           /\ \A k \in DOMAIN target_tokens : ~is_stop(target_tokens[k])

\* w comes no later than v in the order of the search
NoLater(w, v) == w[1] < v[1] \/ (w[1] = v[1] /\ w[2] <= v[2])

\* match is the first, in search order, of the windows of maximal ratio
FromFirstMaximalWindow(ratios, match) ==
    \E w \in DOMAIN ratios :
        /\ Maximal(ratios, w)
        /\ \A v \in DOMAIN ratios : Maximal(ratios, v) => NoLater(w, v)
        /\ match.ratio = ratios[w]
        /\ match.start = segments[w[1] + 1].start
        /\ match.end = segments[w[2]].end

----------------------------------------------------------------------------
(* _segment_into_sentences of WhisperService and of WhisperAnalyzer.  The   *)
(* sentence splitter is modelled by the spans it reports: any ordered list *)
(* of non-empty, non-overlapping character spans of the text it is given.  *)
(* An emitted SentenceSegment also records, in span, the index in          *)
(* doc.sents of the sentence it was built from.                            *)

RECURSIVE Concat(_)
Concat(texts) == IF texts = <<>> THEN <<>> ELSE texts[1] \o Concat(Tail(texts))

\* dict assignment d[key] = value on a list of [pos, word] entries kept in
\* insertion order
DictPut(d, key, value) ==
    IF \E k \in DOMAIN d : d[k].pos = key
    THEN [k \in DOMAIN d |->
             IF d[k].pos = key THEN [pos |-> key, word |-> value] ELSE d[k]]
    ELSE Append(d, [pos |-> key, word |-> value])

\* WhisperService: "for word in segment.words" from the first of words on
RECURSIVE ServiceCollectWords(_, _)
ServiceCollectWords(words, st) ==
    IF words = <<>> THEN st
    ELSE ServiceCollectWords(Tail(words),
             [all_words |-> Append(st.all_words, words[1]),
              word_mapping |->
                  DictPut(st.word_mapping, Len(st.full_text), words[1]),
              full_text |-> st.full_text \o words[1].text \o <<" ">>])

\* WhisperService: "for segment in whisper_segments"
RECURSIVE ServiceCollect(_, _)
ServiceCollect(segs, st) ==
    IF segs = <<>> THEN st
    ELSE ServiceCollect(Tail(segs), ServiceCollectWords(segs[1].words, st))

ServiceCollected(segs) ==
    ServiceCollect(segs,
                   [all_words |-> <<>>, word_mapping |-> <<>>,
                    full_text |-> <<>>])

\* WhisperService: the text given to spaCy, full_text.strip()
ServiceDocText(segs) == Strip(ServiceCollected(segs).full_text)

\* WhisperService: "if pos >= sent_start and word_end_pos <= sent_end"
ServiceBelongsByStart(pos, wordLen, sentStart, sentEnd) ==
    pos >= sentStart /\ pos <= sentEnd

ServiceBelongs(pos, wordLen, sentStart, sentEnd) ==
    pos >= sentStart /\ pos + wordLen <= sentEnd

\* sentence_words.insert(0, word) in place of sentence_words.append(word)
ServiceSentenceWordsNewestFirst(wordMapping, sentStart, sentEnd) ==
    LET chosen == SelectSeq(wordMapping,
                      LAMBDA e : ServiceBelongs(e.pos, Len(e.word.text),
                                                sentStart, sentEnd))
    IN  [k \in DOMAIN chosen |-> chosen[Len(chosen) + 1 - k].word]

\* WhisperService: the words of one sentence
ServiceSentenceWords(wordMapping, sentStart, sentEnd) ==
    LET relevant == SelectSeq(wordMapping, LAMBDA e : e.pos <= sentEnd)
        chosen == SelectSeq(relevant,
                      LAMBDA e : ServiceBelongs(e.pos, Len(e.word.text),
                                                sentStart, sentEnd))
    IN  [k \in DOMAIN chosen |-> chosen[k].word]

\* SentenceSegment(text, start=words[0].start, end=words[-1].end, words)
SentenceSegmentFirstEnd(text, words, k) ==
    [text |-> text, start |-> words[1].start, end |-> words[1].end,
     words |-> words, span |-> k]

SentenceSegment(text, words, k) ==
    [text |-> text, start |-> words[1].start, end |-> words[Len(words)].end,
     words |-> words, span |-> k]

\* WhisperService: "for sent in doc.sents" from the k-th sentence on
RECURSIVE ServiceSentLoop(_, _, _, _, _)
ServiceSentLoop(doc, wordMapping, sents, k, out) ==
    IF k > Len(sents) THEN out
    ELSE LET sent_text == Strip(Slice(doc, sents[k][1], sents[k][2]))
             sentence_words ==
                 ServiceSentenceWords(wordMapping, sents[k][1], sents[k][2])
         IN  ServiceSentLoop(doc, wordMapping, sents, k + 1,
                 IF sent_text = <<>> THEN out
                 ELSE IF sentence_words # <<>>
                      THEN Append(out,
                               SentenceSegment(sent_text, sentence_words, k))
                 ELSE out)

ServiceSegmentIntoSentences(segs, sents) ==
    ServiceSentLoop(ServiceDocText(segs), ServiceCollected(segs).word_mapping,
                    sents, 1, <<>>)

\* WhisperAnalyzer: current_words
AnalyzerWords(segs) == Concat([k \in DOMAIN segs |-> segs[k].words])

\* WhisperAnalyzer: the text given to spaCy, current_text.strip()
AnalyzerDocText(segs) ==
    Strip(Concat([k \in DOMAIN segs |-> segs[k].text \o <<" ">>]))

\* WhisperAnalyzer: "if current_pos >= sent_start_char and
\* current_pos + word_len <= sent_end_char"
AnalyzerBelongsByStart(pos, wordLen, sentStart, sentEnd) ==
    pos >= sentStart /\ pos <= sentEnd

AnalyzerBelongs(pos, wordLen, sentStart, sentEnd) ==
    pos >= sentStart /\ pos + wordLen <= sentEnd

\* WhisperAnalyzer: "for word in current_words" from the idx-th word on
RECURSIVE AnalyzerWordLoop(_, _, _, _, _, _)
AnalyzerWordLoop(words, idx, currentPos, sentStart, sentEnd, acc) ==
    IF idx > Len(words) THEN acc
    ELSE LET word_len == Len(words[idx].text)
             acc2 == IF AnalyzerBelongs(currentPos, word_len,
                                        sentStart, sentEnd)
                     THEN Append(acc, words[idx]) ELSE acc
             pos2 == currentPos + word_len + 1
         IN  IF pos2 > sentEnd THEN acc2
             ELSE AnalyzerWordLoop(words, idx + 1, pos2,
                                   sentStart, sentEnd, acc2)

\* WhisperAnalyzer: "for sent in doc.sents" from the k-th sentence on
RECURSIVE AnalyzerSentLoop(_, _, _, _, _)
AnalyzerSentLoop(doc, words, sents, k, out) ==
    IF k > Len(sents) THEN out
    ELSE LET sent_text == Strip(Slice(doc, sents[k][1], sents[k][2]))
             sentence_words ==
                 AnalyzerWordLoop(words, 1, 0, sents[k][1], sents[k][2], <<>>)
         IN  AnalyzerSentLoop(doc, words, sents, k + 1,
                 IF sentence_words # <<>>
                 THEN Append(out,
                          SentenceSegment(sent_text, sentence_words, k))
                 ELSE out)

AnalyzerSegmentIntoSentences(segs, sents) ==
    AnalyzerSentLoop(AnalyzerDocText(segs), AnalyzerWords(segs), sents, 1,
                     <<>>)

\* word.word values of the transcriptions of the model: a plain word and a
\* word with the leading space faster-whisper puts before it
WordTexts == {<<"a">>, <<" ", "b">>}

\* analyze_audio: the Word list built from the recognizer's words; the k-th
\* word lasts from 10k to 10k+8
TranscribedWords(texts) ==
    [k \in DOMAIN texts |->
        [text |-> texts[k], start |-> 10 * k, end |-> 10 * k + 8,
         probability |-> 1]]

\* analyze_audio: TranscriptSegment(text=segment.text.strip(), words=words)
\* where the recognizer's segment.text is the concatenation of its words
TranscriptSegment(words) ==
    [text |-> Strip(Concat([k \in DOMAIN words |-> words[k].text])),
     words |-> words]

\* the transcriptions: up to MaxWords words in one segment or in two
Transcriptions ==
    {<<>>} \cup
    UNION {
        LET words == TranscribedWords(texts)
            n == Len(words)
        IN  {<<TranscriptSegment(words)>>} \cup
            {<<TranscriptSegment(SubSeq(words, 1, cut)),
               TranscriptSegment(SubSeq(words, cut + 1, n))>> :
                 cut \in 1 .. n - 1}
        : texts \in SeqsUpTo(WordTexts, MaxWords) \ {<<>>}}

\* what the splitter may report for a text of len characters
SpanLists(len) ==
    LET Spans == {sp \in (0 .. len) \X (0 .. len) : sp[1] < sp[2]}
    IN  {sents \in SeqsUpTo(Spans, MaxSents) :
            \A k \in 1 .. Len(sents) - 1 : sents[k][2] <= sents[k + 1][1]}

InitMapper ==
    /\ pc = "transcribed"
    /\ AlignerIdle
    /\ GateIdle
    /\ OthersIdle
    /\ whisper_segments \in Transcriptions
    /\ impl = "none"
    /\ doc_text = <<>>
    /\ doc_sents = <<>>
    /\ sentences = <<>>

\* WhisperService._segment_into_sentences
ServiceSegment ==
    /\ pc = "transcribed"
    /\ impl' = "service"
    /\ doc_text' = ServiceDocText(whisper_segments)
    /\ \E sents \in SpanLists(Len(ServiceDocText(whisper_segments))) :
           /\ doc_sents' = sents
           /\ sentences' = ServiceSegmentIntoSentences(whisper_segments, sents)
    /\ pc' = "segmented"
    /\ UNCHANGED <<loaderVars, matchVars, storeVars, modelVars,
                   alignerVars, gateVars, whisper_segments>>

\* WhisperAnalyzer._segment_into_sentences
AnalyzerSegment ==
    /\ pc = "transcribed"
    /\ impl' = "analyzer"
    /\ doc_text' = AnalyzerDocText(whisper_segments)
    /\ \E sents \in SpanLists(Len(AnalyzerDocText(whisper_segments))) :
           /\ doc_sents' = sents
           /\ sentences' = AnalyzerSegmentIntoSentences(whisper_segments, sents)
    /\ pc' = "segmented"
    /\ UNCHANGED <<loaderVars, matchVars, storeVars, modelVars,
                   alignerVars, gateVars, whisper_segments>>

NextMapper == ServiceSegment \/ AnalyzerSegment

SpecMapper == InitMapper /\ [][NextMapper]_vars

----------------------------------------------------------------------------
(* Properties of _segment_into_sentences *)

\* the token list and the character offset the code records for its k-th
\* token: the word_mapping key (WhisperService), the value of current_pos
\* when the word is reached (WhisperAnalyzer)
TokenList == AnalyzerWords(whisper_segments)

RECURSIVE RunningPos(_, _)
RunningPos(words, k) ==
    IF k = 1 THEN 0 ELSE RunningPos(words, k - 1) + Len(words[k - 1].text) + 1

Offset(k) ==
    IF impl = "service"
    THEN ServiceCollected(whisper_segments).word_mapping[k].pos
    ELSE RunningPos(TokenList, k)

\* [offset, offset + len(text)) lies inside the span
Inside(k, span) ==
    Offset(k) >= span[1] /\ Offset(k) + Len(TokenList[k].text) <= span[2]

\* the token shares a character position with the span without lying inside
Straddles(k, span) ==
    /\ Offset(k) < span[2]
    /\ Offset(k) + Len(TokenList[k].text) > span[1]
    /\ ~Inside(k, span)

Attached(k, sent) == \E m \in DOMAIN sent.words : sent.words[m] = TokenList[k]

\* C7: the tokens attached to an emitted sentence are exactly the tokens
\* whose range [offset, offset+len(text)) lies inside the sentence's span; a
\* token that straddles a span boundary is attached to no sentence.
C7_ExactlyContained ==
    pc = "segmented" =>
        \A x \in DOMAIN sentences :
            \A k \in DOMAIN TokenList :
                /\ Attached(k, sentences[x])
                       <=> Inside(k, doc_sents[sentences[x].span])
                /\ (\E sp \in DOMAIN doc_sents : Straddles(k, doc_sents[sp]))
                       => ~Attached(k, sentences[x])

C7_Witness ==
    /\ pc = "segmented"
    /\ Len(sentences) = 2
    /\ \E k \in DOMAIN TokenList :
           /\ Straddles(k, doc_sents[1])
           /\ Straddles(k, doc_sents[2])
           /\ ~Attached(k, sentences[1])
           /\ ~Attached(k, sentences[2])

\* C8: every emitted SentenceSegment has a non-empty word list, starts at
\* the start of its first word and ends at the end of its last word; a span
\* that contains no token produces no element.
C8_SpanTimes ==
    pc = "segmented" =>
        /\ \A x \in DOMAIN sentences :
               /\ sentences[x].words # <<>>
               /\ sentences[x].start = sentences[x].words[1].start
               /\ sentences[x].end =
                      sentences[x].words[Len(sentences[x].words)].end
        /\ \A sp \in DOMAIN doc_sents :
               (\A k \in DOMAIN TokenList : ~Inside(k, doc_sents[sp]))
                   => \A x \in DOMAIN sentences : sentences[x].span # sp

C8_Witness ==
    /\ pc = "segmented"
    /\ Len(doc_sents) = 2
    /\ Len(sentences) = 1
    /\ Len(sentences[1].words) >= 2
    /\ \A k \in DOMAIN TokenList :
           ~Inside(k, doc_sents[3 - sentences[1].span])

\* C9: the offset recorded for every token k indexes the token's text in
\* the text handed to the sentence splitter:
\* doc_text[offset(k) : offset(k) + len(text_k)] = text_k.
C9_OffsetRoundTrip ==
    pc = "segmented" =>
        \A k \in DOMAIN TokenList :
            Slice(doc_text, Offset(k), Offset(k) + Len(TokenList[k].text))
                = TokenList[k].text

\* words is TokenList[a .. a + Len(words) - 1] for some a
IsRun(words) ==
    \E a \in DOMAIN TokenList :
        /\ a + Len(words) - 1 <= Len(TokenList)
        /\ words = SubSeq(TokenList, a, a + Len(words) - 1)

\* C21: the word list of every emitted sentence is a contiguous run of the
\* input token sequence in its original order (nothing reordered, repeated
\* or skipped between the first and the last attached token), and the
\* emitted sentences appear in the order of their spans.
C21_ContiguousInOrder ==
    pc = "segmented" =>
        /\ \A x \in DOMAIN sentences : IsRun(sentences[x].words)
        /\ \A x, y \in DOMAIN sentences :
               x < y => sentences[x].span < sentences[y].span

C21_Witness ==
    /\ pc = "segmented"
    /\ Len(sentences) = 2
    /\ Len(sentences[1].words) >= 2
    /\ sentences[2].words[1] = TokenList[Len(TokenList)]

\* the spans index both the text WhisperService and the text
\* WhisperAnalyzer hand to the sentence splitter
SpansFitBoth ==
    \A k \in DOMAIN doc_sents :
        /\ doc_sents[k][2] <= Len(ServiceDocText(whisper_segments))
        /\ doc_sents[k][2] <= Len(AnalyzerDocText(whisper_segments))

\* C28: for the same token list and the same sentence character spans the
\* two implementations of _segment_into_sentences attach the same tokens
\* to each sentence and emit the same sentences.
C28_MappersAgree ==
    (pc = "segmented" /\ SpansFitBoth) =>
        ServiceSegmentIntoSentences(whisper_segments, doc_sents)
            = AnalyzerSegmentIntoSentences(whisper_segments, doc_sents)

----------------------------------------------------------------------------
(* The word filter: ArticleViewSet._clean_word and _filter_word (views.py) *)
(* and WordProcessService.filter_word (tasks.py).  The spaCy analysis of a *)
(* text is modelled by the doc it may return: a list of tokens with pos_,  *)
(* is_stop and lemma_.  A Python string that is returned is a pair of its  *)
(* literal part and its formatted-in part; a lemma has no literal part.    *)

PyStr(lit, arg) == [lit |-> lit, arg |-> arg]

LemmaStr(lemma) == PyStr("", lemma)

NonEmptyStr(x) == x.lit # "" \/ x.arg # <<>>

\* the characters of the model after lower(): \w, \s and the rest
WordCharSet == {"a", "b", "e"}

SpaceCharSet == {" "}

\* unicodedata.normalize('NFKD', word).encode('ASCII', 'ignore').decode():
\* an accented letter keeps its base letter, other non-ASCII is dropped
AsciiFold(s) ==
    Concat([k \in DOMAIN s |->
               IF s[k] = "é" THEN <<"e">>
               ELSE IF s[k] \in WordCharSet \cup SpaceCharSet
                                   \cup {"-", "'", "!", "A", "B"}
                    THEN <<s[k]>>
               ELSE <<>>])

\* re.sub(r'[^\w\s\'-]', '', word)
DropSpecial(s) ==
    SelectSeq(s, LAMBDA c : c \in WordCharSet \cup SpaceCharSet \cup {"'", "-"})

RECURSIVE LStripChar(_, _)
LStripChar(s, c) == IF s # <<>> /\ s[1] = c THEN LStripChar(Tail(s), c) ELSE s

RECURSIVE RStripChar(_, _)
RStripChar(s, c) ==
    IF s # <<>> /\ s[Len(s)] = c
    THEN RStripChar(SubSeq(s, 1, Len(s) - 1), c) ELSE s

\* re.sub(r'^c+|c+$', '', word)
StripEdges(s, c) == RStripChar(LStripChar(s, c), c)

\* re.sub(r"c+", "c", word)
RECURSIVE CollapseRuns(_, _)
CollapseRuns(s, c) ==
    IF Len(s) < 2 THEN s
    ELSE IF s[1] = c /\ s[2] = c THEN CollapseRuns(Tail(s), c)
    ELSE <<s[1]>> \o CollapseRuns(Tail(s), c)

\* word.split(); cur is the piece being read
RECURSIVE Split(_, _)
Split(s, cur) ==
    LET flush == IF cur = <<>> THEN <<>> ELSE <<cur>>
    IN  IF s = <<>> THEN flush
        ELSE IF s[1] \in SpaceCharSet THEN flush \o Split(Tail(s), <<>>)
        ELSE Split(Tail(s), Append(cur, s[1]))

_clean_word(word) ==
    LET lowered == Lower(word)
        ascii == AsciiFold(lowered)
        kept == DropSpecial(ascii)
        unhyphened == StripEdges(kept, "-")
        collapsed == CollapseRuns(unhyphened, "'")
        unquoted == StripEdges(collapsed, "'")
    IN  JoinSpace(Split(unquoted, <<>>))

exclude_pos == {"PRON", "NUM", "PROPN", "SPACE", "PUNCT", "SYM", "X"}

\* str.isalpha()
isalpha(s) == s # <<>> /\ \A k \in DOMAIN s : s[k] \in WordCharSet

\* f"... (tokens: {', '.join(tokens)})": the formatted-in part
TokensArg(doc) == [k \in DOMAIN doc |-> doc[k].pos_]

\* f"... (length: {len(token.lemma_)})": the formatted-in part
LengthArg(lemma) == <<IF lemma = <<>> THEN "0" ELSE "1">>

\* ArticleViewSet._filter_word; doc is self.nlp(cleaned word)
views_filter_word(wordText, doc) ==
    LET cleaned == _clean_word(wordText)
    IN  IF cleaned = <<>>
        THEN <<FALSE, PyStr("empty after cleaning", <<>>)>>
        ELSE IF Len(doc) # 1
        THEN <<FALSE, PyStr("not a single word", TokensArg(doc))>>
        ELSE IF doc[1].pos_ \in exclude_pos
        THEN <<FALSE, PyStr("part of speech excluded", <<doc[1].pos_>>)>>
        ELSE IF doc[1].is_stop
        THEN <<FALSE, PyStr("is a stop word", <<>>)>>
        ELSE IF ~isalpha(doc[1].lemma_)
        THEN <<FALSE, PyStr("contains non-letter characters", <<>>)>>
        ELSE IF Len(doc[1].lemma_) <= 1
        THEN <<FALSE, PyStr("word too short", LengthArg(doc[1].lemma_))>>
        ELSE <<TRUE, PyStr("accepted", <<>>)>>

\* WordProcessService.filter_word; doc is nlp(word_text.strip().lower())
tasks_filter_word(wordText, doc) ==
    IF Len(doc) # 1
    THEN <<FALSE, PyStr("not a single word", TokensArg(doc))>>
    ELSE IF doc[1].pos_ \in exclude_pos
    THEN <<FALSE, PyStr("part of speech excluded", <<doc[1].pos_>>)>>
    ELSE IF doc[1].is_stop
    THEN <<FALSE, PyStr("is a stop word", <<>>)>>
    ELSE IF Len(doc[1].lemma_) <= 1
    THEN <<FALSE, PyStr("word too short", LengthArg(doc[1].lemma_))>>
    ELSE <<TRUE, LemmaStr(doc[1].lemma_)>>

\* the characters of the strings handed to the filter
GateChars == {"a", "B", "é", "-", "'", " ", "!"}

\* the lemmas spaCy may assign: a word, a single letter, a hyphenated word
Lemmas == {<<"a", "b">>, <<"a">>, <<"a", "-", "b">>}

Tokens == [pos_ : {"NOUN", "PRON"}, is_stop : BOOLEAN, lemma_ : Lemmas]

\* the docs spaCy may return for a text: nothing for the empty text, else
\* one token or more
Analyses(text) ==
    IF text = <<>> THEN {<<>>}
    ELSE {<<t>> : t \in Tokens}
         \cup {<< [pos_ |-> "NOUN", is_stop |-> FALSE, lemma_ |-> <<"a", "b">>],
                  [pos_ |-> "NOUN", is_stop |-> FALSE, lemma_ |-> <<"a">>] >>}

InitGate ==
    /\ pc = "word"
    /\ AlignerIdle
    /\ MapperIdle
    /\ OthersIdle
    /\ word_text \in SeqsUpTo(GateChars, MaxWordLen)
    /\ doc_views = <<>>
    /\ doc_tasks = <<>>
    /\ decision_views = <<>>
    /\ decision_tasks = <<>>
    /\ nlp_calls = {}
    /\ stored_views = {}
    /\ stored_tasks = {}

\* the calls of spaCy after ArticleViewSet._filter_word ran on wordText:
\* "if not word_text: return" comes before "doc = self.nlp(word_text)"
ViewsCalls(calls, wordText) ==
    IF _clean_word(wordText) = <<>> THEN calls
    ELSE calls \cup {[by |-> "views", text |-> _clean_word(wordText)]}

\* the calls of spaCy after WordProcessService.filter_word ran on wordText
TasksCalls(calls, wordText) ==
    calls \cup {[by |-> "tasks", text |-> Lower(Strip(wordText))]}

\* one call of ArticleViewSet._filter_word
ViewsFilterWord ==
    /\ pc = "word"
    /\ \E doc \in Analyses(_clean_word(word_text)) :
           /\ doc_views' = doc
           /\ decision_views' = views_filter_word(word_text, doc)
    /\ nlp_calls' = ViewsCalls(nlp_calls, word_text)
    /\ pc' = "views_done"
    /\ UNCHANGED <<loaderVars, matchVars, storeVars, modelVars,
                   alignerVars, mapperVars, word_text, doc_tasks,
                   decision_tasks, stored_views, stored_tasks>>

\* one call of WordProcessService.filter_word on the same string; spaCy
\* returns the same doc for the same text
TasksFilterWord ==
    /\ pc = "views_done"
    /\ \E doc \in Analyses(Lower(Strip(word_text))) :
           /\ Lower(Strip(word_text)) = _clean_word(word_text)
                  => doc = doc_views
           /\ doc_tasks' = doc
           /\ decision_tasks' = tasks_filter_word(word_text, doc)
    /\ nlp_calls' = TasksCalls(nlp_calls, word_text)
    /\ pc' = "gate_done"
    /\ UNCHANGED <<loaderVars, matchVars, storeVars, modelVars,
                   alignerVars, mapperVars, word_text, doc_views,
                   decision_views, stored_views, stored_tasks>>

\* Word.objects.get_or_create(lemma=lemma) on the set of stored lemmas
get_or_create(stored, lemma) == stored \cup {lemma}

\* the body of "for word_info in sent.words" of ArticleViewSet.create:
\* wordText is word_info.text.lower(), doc is spaCy's doc of its cleaned form
create_word(stored, wordText, doc) ==
    IF views_filter_word(wordText, doc)[1]
    THEN get_or_create(stored, wordText)
    ELSE stored

\* the body of "for word_text in sentence.content.split()" of
\* analyze_article: wordText is word_text.lower(), the stored value is the
\* second component filter_word returned
analyze_word(stored, wordText, doc) ==
    IF tasks_filter_word(wordText, doc)[1]
    THEN get_or_create(stored, tasks_filter_word(wordText, doc)[2].arg)
    ELSE stored

\* ArticleViewSet.create handles the word word_text of a sentence
CreateWord ==
    /\ pc = "gate_done"
    /\ \E doc \in Analyses(_clean_word(Lower(word_text))) :
           /\ _clean_word(Lower(word_text)) = _clean_word(word_text)
                  => doc = doc_views
           /\ stored_views' = create_word(stored_views, Lower(word_text), doc)
    /\ nlp_calls' = ViewsCalls(nlp_calls, Lower(word_text))
    /\ pc' = "views_stored"
    /\ UNCHANGED <<loaderVars, matchVars, storeVars, modelVars,
                   alignerVars, mapperVars, word_text, doc_views, doc_tasks,
                   decision_views, decision_tasks, stored_tasks>>

\* analyze_article handles word_text, one piece of sentence.content.split()
AnalyzeWord ==
    /\ pc = "views_stored"
    /\ Split(word_text, <<>>) = <<word_text>>
    /\ \E doc \in Analyses(Lower(Strip(Lower(word_text)))) :
           /\ Lower(Strip(Lower(word_text))) = Lower(Strip(word_text))
                  => doc = doc_tasks
           /\ stored_tasks' = analyze_word(stored_tasks, Lower(word_text), doc)
    /\ nlp_calls' = TasksCalls(nlp_calls, Lower(word_text))
    /\ pc' = "tasks_stored"
    /\ UNCHANGED <<loaderVars, matchVars, storeVars, modelVars,
                   alignerVars, mapperVars, word_text, doc_views, doc_tasks,
                   decision_views, decision_tasks, stored_views>>

NextGate == ViewsFilterWord \/ TasksFilterWord \/ CreateWord \/ AnalyzeWord

SpecGate == InitGate /\ [][NextGate]_vars

----------------------------------------------------------------------------
(* Properties of the word filter *)

\* the decision d made on the doc: accepted with the lemma, or rejected with
\* a non-empty reason
LemmaOrReason(d, doc) ==
    \/ d[1] /\ Len(doc) = 1 /\ d[2] = LemmaStr(doc[1].lemma_)
    \/ ~d[1] /\ NonEmptyStr(d[2])

\* C10: every call of the gate returns either accepted = true together with
\* the lemma, or accepted = false together with a non-empty reason.
C10_ResultShape ==
    /\ pc \in {"views_done", "gate_done", "views_stored", "tasks_stored"}
           => LemmaOrReason(decision_views, doc_views)
    /\ pc \in {"gate_done", "views_stored", "tasks_stored"}
           => LemmaOrReason(decision_tasks, doc_tasks)

\* the calls have returned
ViewsReturned == pc \in {"views_done", "gate_done", "views_stored", "tasks_stored"}

TasksReturned == pc \in {"gate_done", "views_stored", "tasks_stored"}

\* C11: the Word recorded for an accepted token whose lemma differs from
\* its lowercased surface text carries the lemma, on the upload path
\* (ArticleViewSet.create) and on the analysis task (analyze_article).
C11_StoredLemma ==
    /\ (/\ pc \in {"views_stored", "tasks_stored"}
        /\ views_filter_word(Lower(word_text), doc_views)[1]
        /\ doc_views[1].lemma_ # Lower(word_text))
           => stored_views = {doc_views[1].lemma_}
    /\ (/\ pc = "tasks_stored"
        /\ tasks_filter_word(Lower(word_text), doc_tasks)[1]
        /\ doc_tasks[1].lemma_ # Lower(word_text))
           => stored_tasks = {doc_tasks[1].lemma_}

\* a cleaned form the cleaning stage has to reject: empty, a bare hyphen,
\* a hyphen at either end, or a doubled hyphen
RejectedByCleaning(c) ==
    \/ c = <<>>
    \/ c = <<"-">>
    \/ c[1] = "-"
    \/ c[Len(c)] = "-"
    \/ \E k \in 1 .. Len(c) - 1 : c[k] = "-" /\ c[k + 1] = "-"

\* C12: an input whose cleaned form is empty, is a bare hyphen, starts or
\* ends with a hyphen or contains a doubled hyphen is rejected by
\* _filter_word, and spaCy is not invoked on it.
C12_CleaningRejects ==
    (ViewsReturned /\ RejectedByCleaning(_clean_word(word_text)))
        => /\ ~decision_views[1]
           /\ \A call \in nlp_calls : call.by # "views"

\* the five steps of the gate on a cleaned form and its doc
PassesAllSteps(cleaned, doc) ==
    /\ cleaned # <<>>
    /\ Len(doc) = 1
    /\ doc[1].pos_ \notin {"PRON", "NUM", "PROPN", "SPACE", "PUNCT", "SYM", "X"}
    /\ ~doc[1].is_stop
    /\ Len(doc[1].lemma_) > 1

\* C13: a token is accepted if and only if its cleaned form is non-empty,
\* it analyses as one token, its part of speech is not excluded, it is not
\* a stop word and its lemma is longer than one character; the two
\* implementations of the gate accept the same inputs.
C13_AcceptanceCriterion ==
    /\ ViewsReturned
           => (decision_views[1]
                   <=> PassesAllSteps(_clean_word(word_text), doc_views))
    /\ TasksReturned
           => /\ decision_tasks[1]
                     <=> PassesAllSteps(Lower(Strip(word_text)), doc_tasks)
              /\ decision_tasks[1] = decision_views[1]

\* the first of the five steps, in the specified order, that the cleaned
\* form and its doc fail; "none" when they pass all of them
FirstFailure(cleaned, doc) ==
    IF cleaned = <<>> THEN "clean"
    ELSE IF Len(doc) # 1 THEN "single"
    ELSE IF doc[1].pos_ \in {"PRON", "NUM", "PROPN", "SPACE", "PUNCT", "SYM", "X"}
         THEN "pos"
    ELSE IF doc[1].is_stop THEN "stop"
    ELSE IF Len(doc[1].lemma_) <= 1 THEN "length"
    ELSE "none"

\* the reason string of each step
StepReason(step) ==
    CASE step = "clean" -> "empty after cleaning"
      [] step = "single" -> "not a single word"
      [] step = "pos" -> "part of speech excluded"
      [] step = "stop" -> "is a stop word"
      [] step = "length" -> "word too short"
      [] OTHER -> ""

\* the rejection d carries the reason of the first step that fails
FirstFailureReported(d, cleaned, doc) ==
    /\ FirstFailure(cleaned, doc) # "none"
    /\ d[2].lit = StepReason(FirstFailure(cleaned, doc))

\* C20: a rejected token carries the reason of the first check it fails in
\* the order clean, single token, part of speech, stop word, lemma length,
\* and rejections by different checks carry different reasons.
C20_FirstFailureReason ==
    /\ (ViewsReturned /\ ~decision_views[1])
           => FirstFailureReported(decision_views, _clean_word(word_text),
                                   doc_views)
    /\ (TasksReturned /\ ~decision_tasks[1])
           => FirstFailureReported(decision_tasks, Lower(Strip(word_text)),
                                   doc_tasks)
    /\ (TasksReturned /\ ~decision_views[1] /\ ~decision_tasks[1]
            /\ FirstFailure(_clean_word(word_text), doc_views)
                   # FirstFailure(Lower(Strip(word_text)), doc_tasks))
           => decision_views[2].lit # decision_tasks[2].lit

\* C30: _clean_word is idempotent: cleaning the cleaned form of a string
\* that _filter_word was called on gives the cleaned form again.
C30_CleanIdempotent ==
    ViewsReturned =>
        _clean_word(_clean_word(word_text)) = _clean_word(word_text)

----------------------------------------------------------------------------
(* Timings loader: SentenceMatcher.load_word_segments *)

\* a cell of the file as csv hands it over, and DictReader's restval
Cell(chars) == [str |-> chars]

\* csv.DictReader: the row as a dict from column name to cell; a column the
\* row has no cell for gets None, cells beyond the header are set aside
DictRow(header, cells) ==
    [name \in {header[k] : k \in DOMAIN header} |->
        IF (CHOOSE k \in DOMAIN header : header[k] = name) <= Len(cells)
        THEN Cell(cells[CHOOSE k \in DOMAIN header : header[k] = name])
        ELSE None]

Digits == <<"0", "1", "2", "3", "4", "5", "6", "7", "8", "9">>

IsDigit(c) == \E d \in DOMAIN Digits : Digits[d] = c

DigitValue(c) == (CHOOSE d \in DOMAIN Digits : Digits[d] = c) - 1

\* the decimal literals float() accepts among the cells of the model:
\* digits with at most one point and at least one digit
IsDecimal(chars) ==
    /\ \A k \in DOMAIN chars : IsDigit(chars[k]) \/ chars[k] = "."
    /\ Cardinality({k \in DOMAIN chars : chars[k] = "."}) <= 1
    /\ \E k \in DOMAIN chars : IsDigit(chars[k])

RECURSIVE DigitsValue(_)
DigitsValue(chars) ==
    IF chars = <<>> THEN 0
    ELSE 10 * DigitsValue(SubSeq(chars, 1, Len(chars) - 1))
         + DigitValue(chars[Len(chars)])

PointAt(chars) ==
    IF \E k \in DOMAIN chars : chars[k] = "."
    THEN CHOOSE k \in DOMAIN chars : chars[k] = "."
    ELSE Len(chars) + 1

\* the value of a decimal literal in hundredths
DecimalValue(chars) ==
    100 * DigitsValue(SubSeq(chars, 1, PointAt(chars) - 1))
    + DigitsValue(SubSeq(SubSeq(chars, PointAt(chars) + 1, Len(chars))
                             \o <<"0", "0">>, 1, 2))

Raised(exception) == [raised |-> exception, value |-> 0]

Value(v) == [raised |-> "", value |-> v]

\* float(row[name]): KeyError without the column, TypeError on None,
\* ValueError on a text that is no number
float(row, name) ==
    IF name \notin DOMAIN row THEN Raised("KeyError")
    ELSE IF row[name] = None THEN Raised("TypeError")
    ELSE IF ~IsDecimal(row[name].str) THEN Raised("ValueError")
    ELSE Value(DecimalValue(row[name].str))

\* row['word']
text_of(row) ==
    IF "word" \notin DOMAIN row THEN Raised("KeyError") ELSE Value(row["word"])

FirstRaised(outcomes) ==
    IF \E k \in DOMAIN outcomes : outcomes[k].raised # ""
    THEN outcomes[SetMin({k \in DOMAIN outcomes : outcomes[k].raised # ""})].raised
    ELSE ""

\* WordSegment(text=row['word'], start=float(row['start']),
\*             end=float(row['end']), conf=float(row['conf']))
MakeSegment(text, start, end, conf) ==
    IF FirstRaised(<<text, start, end, conf>>) # ""
    THEN Raised(FirstRaised(<<text, start, end, conf>>))
    ELSE Value([text |-> text.value, start |-> start.value,
                end |-> end.value, conf |-> conf.value])

WordSegmentOf(row) ==
    MakeSegment(text_of(row), float(row, "start"), float(row, "end"),
                float(row, "conf"))

\* "for row in reader: segments.append(...)" from row k on; an exception
\* leaves the function, and the list built so far with it
RECURSIVE LoadLoop(_, _, _, _)
AppendOrRaise(header, rows, k, segs, made) ==
    IF made.raised # "" THEN [raised |-> made.raised, segments |-> <<>>]
    ELSE LoadLoop(header, rows, k + 1, Append(segs, made.value))

LoadLoop(header, rows, k, segs) ==
    IF k > Len(rows) THEN [raised |-> "", segments |-> segs]
    ELSE AppendOrRaise(header, rows, k, segs,
                       WordSegmentOf(DictRow(header, rows[k])))

load_word_segments(header, rows) == LoadLoop(header, rows, 1, <<>>)

\* the headers of the model: the column order of the test fixture, the
\* word column first, and a file without the conf column
Headers ==
    { <<"start", "end", "conf", "word">>,
      <<"word", "start", "end", "conf">>,
      <<"start", "end", "word">> }

\* the cells of the model: a number and a text that is no number
CellTexts == {<<"1", ".", "5">>, <<"x">>}

\* the rows of a file with n columns: complete, or one cell short
RowsOf(n) == [1 .. n -> CellTexts] \cup [1 .. (n - 1) -> CellTexts]

InitLoader ==
    /\ pc = "file"
    /\ AlignerIdle
    /\ MapperIdle
    /\ GateIdle
    /\ StoreIdle
    /\ MatchIdle
    /\ ModelIdle
    /\ timings_header \in Headers
    /\ timings_rows \in SeqsUpTo(RowsOf(Len(timings_header)), MaxRows)
    /\ load_result = <<>>

\* one call of load_word_segments
LoadWordSegments ==
    /\ pc = "file"
    /\ load_result' = load_word_segments(timings_header, timings_rows)
    /\ pc' = "loaded"
    /\ UNCHANGED <<alignerVars, mapperVars, gateVars, matchVars, storeVars, modelVars,
                   timings_header, timings_rows>>

NextLoader == LoadWordSegments

SpecLoader == InitLoader /\ [][NextLoader]_vars

\* the row has a cell for the column
HasField(header, cells, name) ==
    \E k \in DOMAIN header : header[k] = name /\ k <= Len(cells)

FieldOf(header, cells, name) ==
    cells[CHOOSE k \in DOMAIN header : header[k] = name]

\* the row lacks a required field or has a start, end or conf that is no
\* number
Malformed(header, cells) ==
    \/ \E name \in {"word", "start", "end", "conf"} :
           ~HasField(header, cells, name)
    \/ \E name \in {"start", "end", "conf"} :
           /\ HasField(header, cells, name)
           /\ ~IsDecimal(FieldOf(header, cells, name))

\* C14: if a row of the timings file lacks one of word, start, end, conf or
\* has a non-numeric start, end or conf, load_word_segments raises and
\* delivers no segment list.
C14_FailFast ==
    (pc = "loaded"
        /\ \E k \in DOMAIN timings_rows :
               Malformed(timings_header, timings_rows[k]))
        => load_result.raised # ""

----------------------------------------------------------------------------
(* SentenceMatcher.match_sentences *)

SentenceMatch(sent, match) ==
    [sentence |-> sent, start |-> match.start, end |-> match.end,
     ratio |-> match.ratio]

\* "if match: results.append(SentenceMatch(...))": what the sentence adds
\* to the results
MatchIfAny(sent, match) ==
    IF match # None THEN <<SentenceMatch(sent, match)>> ELSE <<>>

\* the body of the loop for one sentence once its tokens are known:
\* "if not tokens: continue", else "match = self.find_matching_span(...)"
MatchSentence(sent, segs, tokens) ==
    IF tokens = <<>> THEN <<>>
    ELSE MatchIfAny(sent, find_matching_span(tokens, segs, DefaultMinRatio,
                                             DefaultWindowSize).match)

\* what each sentence adds to the results
MatchEach(sents, segs, model) ==
    [k \in DOMAIN sents |->
        MatchSentence(sents[k], segs, get_normalized_tokens(sents[k], model))]

\* results that grow at the front
AddAtFront(res, added) == added \o res

\* results.append(...)
AddAtEnd(res, added) == res \o added

\* "for sentence in sentences" from sentence k on, res being the results so
\* far
RECURSIVE MatchLoop(_, _, _)
MatchLoop(added, k, res) ==
    IF k > Len(added) THEN res
    ELSE MatchLoop(added, k + 1, AddAtEnd(res, added[k]))

match_sentences(sents, segs, model) ==
    MatchLoop(MatchEach(sents, segs, model), 1, <<>>)

\* the sentences of the model: a content word, a stop word, a word no
\* token resembles, and a content word with a full stop
SentenceTexts ==
    {<<"a", "b">>, <<"t", "h", "e">>, <<"c">>, <<"B", ".">>}

InitMatch ==
    /\ pc = "transcript"
    /\ sentence = <<>>
    /\ nlp = [united |-> FALSE, states |-> FALSE]
    /\ target_tokens = <<>>
    /\ \E texts \in SeqsUpTo(SegTexts, MaxSegs) :
           segments = GenericSegments(texts)
    /\ min_ratio = DefaultMinRatio
    /\ window_size = DefaultWindowSize
    /\ best_match = None
    /\ evaluated = {}
    /\ min_ratio2 = DefaultMinRatio
    /\ best_match2 = None
    /\ MapperIdle
    /\ GateIdle
    /\ StoreIdle
    /\ LoaderIdle
    /\ ModelIdle
    /\ transcript \in SeqsUpTo(SentenceTexts, MaxSentences)
    /\ results = <<>>

\* one call of match_sentences
MatchSentences ==
    /\ pc = "transcript"
    /\ results' = match_sentences(transcript, segments, nlp)
    /\ pc' = "matched"
    /\ UNCHANGED <<alignerVars, mapperVars, gateVars, loaderVars, modelVars, storeVars,
                   transcript>>

NextMatch == MatchSentences

SpecMatch == InitMatch /\ [][NextMatch]_vars

\* the match of sentence k of the transcript
TokensOf(k) == get_normalized_tokens(transcript[k], nlp)

SpanOf(k) ==
    find_matching_span(TokensOf(k), segments, DefaultMinRatio,
                       DefaultWindowSize).match

\* the match of every sentence, None for a sentence without tokens
Spans ==
    [k \in DOMAIN transcript |->
        IF TokensOf(k) = <<>> THEN None ELSE SpanOf(k)]

\* the sentences with a match
Matched(spans) == {k \in DOMAIN spans : spans[k] # None}

\* res lists the matches of the sentences with a match, in their order
AreMatchesOf(res, spans) ==
    /\ Len(res) = Cardinality(Matched(spans))
    /\ \A r \in DOMAIN res :
           res[r] = SentenceMatch(transcript[Nth(Matched(spans), r)],
                                  spans[Nth(Matched(spans), r)])

\* C15: the output of match_sentences holds exactly one SentenceMatch for
\* each sentence that has tokens and for which find_matching_span returns a
\* match, nothing for any other sentence, in the order of the sentences.
C15_MatchesInOrder == pc = "matched" => AreMatchesOf(results, Spans)

C15_Witness ==
    /\ pc = "matched"
    /\ Len(transcript) = 3
    /\ TokensOf(1) = <<>>
    /\ TokensOf(2) # <<>> /\ SpanOf(2) = None
    /\ Len(results) = 1
    /\ results[1].sentence = transcript[3]

----------------------------------------------------------------------------
(* Loading of the shared models: WordProcessService._get_nlp and           *)
(* WhisperService._get_nlp / _get_model on the worker threads, and the     *)
(* WhisperAnalyzer an upload request constructs                            *)

Threads == 1 .. MaxThreads

InitModels ==
    /\ pc = "workers"
    /\ AlignerIdle
    /\ MapperIdle
    /\ GateIdle
    /\ StoreIdle
    /\ LoaderIdle
    /\ MatchIdle
    /\ _nlp = 0
    /\ thread_pc = [t \in Threads |-> "idle"]
    /\ thread_nlp = [t \in Threads |-> 0]
    /\ thread_calls = [t \in Threads |-> 0]
    /\ loads = 0
    /\ analyzer_loads = 0

\* "if cls._nlp is None:" of a call that thread t starts
CheckNlp(t) ==
    /\ thread_pc[t] = "idle"
    /\ thread_calls[t] < MaxCalls
    /\ thread_pc' = [thread_pc EXCEPT
                        ![t] = IF _nlp = 0 THEN "load" ELSE "return"]
    /\ UNCHANGED <<pc, alignerVars, mapperVars, gateVars, loaderVars,
                   matchVars, storeVars, _nlp, thread_nlp, thread_calls, loads,
                   analyzer_loads>>

\* "cls._nlp = spacy.load('en_core_web_sm')": a new instance
LoadNlp(t) ==
    /\ thread_pc[t] = "load"
    /\ loads' = loads + 1
    /\ _nlp' = loads + 1
    /\ thread_pc' = [thread_pc EXCEPT ![t] = "return"]
    /\ UNCHANGED <<pc, alignerVars, mapperVars, gateVars, loaderVars,
                   matchVars, storeVars, thread_nlp, thread_calls, analyzer_loads>>

\* "return cls._nlp"
ReturnNlp(t) ==
    /\ thread_pc[t] = "return"
    /\ thread_nlp' = [thread_nlp EXCEPT ![t] = _nlp]
    /\ thread_calls' = [thread_calls EXCEPT ![t] = @ + 1]
    /\ thread_pc' = [thread_pc EXCEPT ![t] = "idle"]
    /\ UNCHANGED <<pc, alignerVars, mapperVars, gateVars, loaderVars,
                   matchVars, storeVars, _nlp, loads, analyzer_loads>>

\* ArticleViewSet.create: "analyzer = WhisperAnalyzer(model_name="base")",
\* whose __init__ loads the Whisper model and the spaCy model
UploadRequest ==
    /\ analyzer_loads < MaxUploads
    /\ analyzer_loads' = analyzer_loads + 1
    /\ UNCHANGED <<pc, alignerVars, mapperVars, gateVars, loaderVars,
                   matchVars, storeVars, _nlp, thread_pc, thread_nlp, thread_calls,
                   loads>>

NextModels ==
    \/ \E t \in Threads : CheckNlp(t)
    \/ \E t \in Threads : LoadNlp(t)
    \/ \E t \in Threads : ReturnNlp(t)
    \/ UploadRequest

SpecModels == InitModels /\ [][NextModels]_vars

\* C16: the model-loading step runs at most once per process, on the
\* worker threads and across upload requests, and every call that has
\* returned got the same instance.
C16_LoadedOnce ==
    pc = "workers"
        => /\ loads <= 1
           /\ analyzer_loads <= 1
           /\ \A t, u \in Threads :
                  (thread_nlp[t] # 0 /\ thread_nlp[u] # 0)
                      => thread_nlp[t] = thread_nlp[u]

----------------------------------------------------------------------------
(* Time ranges: find_matching_span and _segment_into_sentences on tokens   *)
(* whose times vary: every token has start <= end and the starts do not    *)
(* decrease, while tokens may overlap or end after a later token.          *)

\* the <<start, end>> pairs of n tokens
Timings(n) ==
    {times \in [1 .. n -> (0 .. MaxTime) \X (0 .. MaxTime)] :
        /\ \A k \in 1 .. n : times[k][1] <= times[k][2]
        /\ \A k \in 1 .. n - 1 : times[k][1] <= times[k + 1][1]}

\* WordSegment(text, start, end, conf) for each token
TimedSegments(texts, times) ==
    [k \in DOMAIN texts |->
        [text |-> texts[k], start |-> times[k][1], end |-> times[k][2],
         conf |-> 1]]

\* Word(text, start, end, probability) for each recognized word
TimedWords(texts, times) ==
    [k \in DOMAIN texts |->
        [text |-> texts[k], start |-> times[k][1], end |-> times[k][2],
         probability |-> 1]]

InitTimedAligner ==
    /\ pc = "ready"
    /\ sentence = <<>>
    /\ nlp = [united |-> FALSE, states |-> FALSE]
    /\ target_tokens \in SeqsUpTo(TargetWords, MaxTarget) \ {<<>>}
    /\ \E texts \in SeqsUpTo(SegTexts, MaxTimed) \ {<<>>} :
           \E times \in Timings(Len(texts)) :
               segments = TimedSegments(texts, times)
    /\ min_ratio = DefaultMinRatio
    /\ window_size = DefaultWindowSize
    /\ best_match = None
    /\ evaluated = {}
    /\ min_ratio2 = min_ratio
    /\ best_match2 = None
    /\ MapperIdle
    /\ GateIdle
    /\ OthersIdle

InitTimedMapper ==
    /\ pc = "transcribed"
    /\ AlignerIdle
    /\ GateIdle
    /\ OthersIdle
    /\ \E texts \in SeqsUpTo(WordTexts, MaxTimed) \ {<<>>} :
           \E times \in Timings(Len(texts)) :
               whisper_segments =
                   <<TranscriptSegment(TimedWords(texts, times))>>
    /\ impl = "none"
    /\ doc_text = <<>>
    /\ doc_sents = <<>>
    /\ sentences = <<>>

InitTimes == InitTimedAligner \/ InitTimedMapper

NextTimes == FindMatchingSpan \/ ServiceSegment \/ AnalyzerSegment

SpecTimes == InitTimes /\ [][NextTimes]_vars

\* C29: given tokens with start <= end and non-decreasing start, every
\* emitted SentenceSegment and every match returned by find_matching_span
\* has start <= end.
C29_WellFormedRanges ==
    /\ pc = "segmented" =>
           \A x \in DOMAIN sentences : sentences[x].start <= sentences[x].end
    /\ (pc = "done" /\ best_match # None) =>
           best_match.start <= best_match.end

\* an exact match of two target words over two tokens of which the first
\* ends after the second
C29_Witness ==
    /\ pc = "done"
    /\ best_match # None
    /\ Len(target_tokens) = 2
    /\ best_match.ratio = <<1, 1>>
    /\ Len(segments) = 2
    /\ segments[1].end > segments[2].end
    /\ best_match.start = segments[1].start
    /\ best_match.end = segments[2].end

----------------------------------------------------------------------------
(* Persistence: the Article, Sentence, Word and VocabularyItem tables, the  *)
(* requests ArticleViewSet.create and ArticleViewSet.analyze, which run in  *)
(* autocommit mode statement by statement, and the tasks of tasks.py, each  *)
(* of which runs inside one transaction.atomic() block.  The text of a      *)
(* sentence is the list of its words, the text of an article the list of   *)
(* its sentences.                                                           *)

\* Article.objects.create(title=..., audio_file=...): the defaults of models.py
InsertArticle(d) ==
    [d EXCEPT
        !.articles = @ \cup
            {[id |-> d.seq.article + 1, content |-> <<>>,
              transcription_status |-> "pending",
              analysis_status |-> "pending",
              audio_processing_status |-> "pending"]},
        !.seq.article = @ + 1]

\* article.save() of the in-memory article: every column is written
SaveArticle(d, article) ==
    [d EXCEPT !.articles = {r \in @ : r.id # article.id} \cup {article}]

\* Article.objects.get(id=a) on an existing article
GetArticle(d, a) == CHOOSE r \in d.articles : r.id = a

\* Sentence.objects.create(article=..., content=..., order=...)
InsertSentence(d, a, order, content) ==
    [d EXCEPT
        !.sentences = @ \cup
            {[id |-> d.seq.sentence + 1, article |-> a, order |-> order,
              content |-> content]},
        !.seq.sentence = @ + 1]

\* the get of Word.objects.get_or_create(lemma=...): the matching rows
WordsWithLemma(d, lemma) == {w \in d.words : w.lemma = lemma}

\* the create of Word.objects.get_or_create(lemma=...)
InsertWord(d, lemma) ==
    [d EXCEPT
        !.words = @ \cup {[id |-> d.seq.word + 1, lemma |-> lemma]},
        !.seq.word = @ + 1]

\* word.sentences.add(sentence) and
\* VocabularyItem.objects.get_or_create(word=word), which the unique
\* constraint on word keeps to one row
AttachWord(d, w, s) ==
    IF \E it \in d.items : it.word = w
    THEN [d EXCEPT !.links = @ \cup {<<w, s>>}]
    ELSE [d EXCEPT
             !.links = @ \cup {<<w, s>>},
             !.items = @ \cup
                 {[id |-> d.seq.item + 1, word |-> w,
                   mastered |-> FALSE, ignored |-> FALSE]},
             !.seq.item = @ + 1]

\* article.delete(): the sentences go with it (on_delete=CASCADE), and the
\* rows of Word.sentences that point to them
DeleteArticle(d, a) ==
    [d EXCEPT
        !.articles = {r \in @ : r.id # a},
        !.sentences = {r \in @ : r.article # a},
        !.links = {l \in @ :
                      \A r \in d.sentences : r.article = a => l[2] # r.id}]

\* the rows of the tables, without the id counters
Tables(d) ==
    [articles |-> d.articles, sentences |-> d.sentences, words |-> d.words,
     items |-> d.items]

\* what the recognizer may return for an upload: the sentences and their
\* accepted words
Results == {<< <<"x", "y">> >>, << <<"x">>, <<"y">> >>}

\* the value stored as Word.lemma: create stores the word, analyze hands
\* get_or_create the dict {'text', 'lemma', 'pos'} of analyze_text, which
\* the CharField stores as str(dict)
StoredLemma(kind, word) ==
    IF kind = "create" THEN word
    ELSE IF word = "x" THEN "{'lemma': 'x'}" ELSE "{'lemma': 'y'}"

\* the statements a request still has to run: one Sentence.objects.create
\* per sentence, each followed by one get_or_create per word
RECURSIVE Steps(_, _, _)
Steps(sents, k, kind) ==
    IF k > Len(sents) THEN <<>>
    ELSE <<[op |-> "sentence", order |-> k - 1, content |-> sents[k],
            lemma |-> ""]>>
         \o [m \in DOMAIN sents[k] |->
                [op |-> "word", order |-> k - 1, content |-> <<>>,
                 lemma |-> StoredLemma(kind, sents[k][m])]]
         \o Steps(sents, k + 1, kind)

Idle == [kind |-> "idle"]

\* a new request is served by the first thread that is free
FirstFree(p) ==
    /\ requests[p] = Idle
    /\ \A q \in 1 .. p - 1 : requests[q] # Idle

\* a request that has run its first statements
Running(kind, a, sents, before) ==
    [kind |-> kind, article |-> a, todo |-> Steps(sents, 1, kind),
     sentence |-> 0, found |-> -1, before |-> before]

InitStore ==
    /\ pc = "store"
    /\ AlignerIdle
    /\ MapperIdle
    /\ GateIdle
    /\ LoaderIdle
    /\ MatchIdle
    /\ ModelIdle
    /\ db = EmptyDb
    /\ requests = [p \in 1 .. MaxRequests |-> Idle]
    /\ log = NoLog
    /\ started = 0

Others == <<pc, alignerVars, mapperVars, gateVars, loaderVars, matchVars,
            modelVars>>

\* ArticleViewSet.create up to "article.save()": the Article row, the
\* analysis of the audio, the content.  When the analysis raises, the
\* handler deletes the article and the request ends with status 500.
CreateBegin(p) ==
    /\ FirstFree(p)
    /\ started < MaxOps
    /\ started' = started + 1
    /\ \/ /\ db' = DeleteArticle(InsertArticle(db), db.seq.article + 1)
          /\ log' = [op |-> "create", ok |-> FALSE, before |-> db]
          /\ UNCHANGED requests
       \/ \E result \in Results :
              LET created == InsertArticle(db)
                  a == created.seq.article
              IN  /\ db' = SaveArticle(created,
                               [GetArticle(created, a) EXCEPT
                                   !.content = result])
                  /\ requests' = [requests EXCEPT
                                     ![p] = Running("create", a, result, db)]
                  /\ UNCHANGED log
    /\ UNCHANGED Others

\* ArticleViewSet.analyze up to the loop: analyze_text(article.content)
AnalyzeBegin(p) ==
    /\ FirstFree(p)
    /\ started < MaxOps
    /\ started' = started + 1
    /\ \E article \in db.articles :
           requests' = [requests EXCEPT
                           ![p] = Running("analyze", article.id,
                                          article.content, db)]
    /\ UNCHANGED <<db, log, Others>>

\* a statement of the request raises: ArticleViewSet.create catches the
\* exception, deletes the article and answers 500; ArticleViewSet.analyze
\* has no handler, the rows written so far stay
Failed(p) ==
    /\ db' = IF requests[p].kind = "create"
             THEN DeleteArticle(db, requests[p].article)
             ELSE db
    /\ log' = [op |-> requests[p].kind, ok |-> FALSE,
               before |-> requests[p].before]
    /\ requests' = [requests EXCEPT ![p] = Idle]

\* the next statement of a request: Sentence.objects.create, the get of
\* Word.objects.get_or_create (MultipleObjectsReturned when several rows
\* match), or its create followed by the two adds and the VocabularyItem
RequestStep(p) ==
    LET r == requests[p]
        step == r.todo[1]
        matching == WordsWithLemma(db, step.lemma)
        word == IF r.found = 0 THEN db.seq.word + 1 ELSE r.found
    IN  /\ r.kind # "idle"
        /\ IF r.todo = <<>>
           THEN /\ requests' = [requests EXCEPT ![p] = Idle]
                /\ log' = [op |-> r.kind, ok |-> TRUE, before |-> r.before]
                /\ UNCHANGED db
           ELSE IF \/ \A article \in db.articles : article.id # r.article
                   \/ /\ step.op = "word"
                      /\ r.found = -1
                      /\ Cardinality(matching) > 1
           THEN Failed(p)
           ELSE IF step.op = "sentence"
           THEN /\ db' = InsertSentence(db, r.article, step.order,
                                        step.content)
                /\ requests' = [requests EXCEPT
                                   ![p].sentence = db.seq.sentence + 1,
                                   ![p].todo = Tail(@)]
                /\ UNCHANGED log
           ELSE IF r.found = -1
           THEN /\ requests' = [requests EXCEPT
                                   ![p].found =
                                       IF matching = {} THEN 0
                                       ELSE (CHOOSE w \in matching : TRUE).id]
                /\ UNCHANGED <<db, log>>
           ELSE /\ db' = AttachWord(IF r.found = 0
                                    THEN InsertWord(db, step.lemma) ELSE db,
                                    word, r.sentence)
                /\ requests' = [requests EXCEPT
                                   ![p].found = -1, ![p].todo = Tail(@)]
                /\ UNCHANGED log
        /\ UNCHANGED <<started, Others>>

\* a statement of a request raises, as a write does when the database
\* stays locked by a task's transaction
RequestRaises(p) ==
    /\ requests[p].kind # "idle"
    /\ requests[p].todo # <<>>
    /\ Failed(p)
    /\ UNCHANGED <<started, Others>>

\* article.sentences.all(): the sentences of the article by order (Meta
\* ordering), rows of equal order by id
Sentences(d, a) ==
    LET rows == {r \in d.sentences : r.article = a}
        keys == {100 * r.order + r.id : r \in rows}
    IN  [k \in 1 .. Cardinality(rows) |->
            CHOOSE r \in rows : 100 * r.order + r.id = Nth(keys, k)]

\* transcribe_audio: "for idx, sent in enumerate(result['sentences'])"
RECURSIVE InsertSentences(_, _, _, _)
InsertSentences(d, a, result, k) ==
    IF k > Len(result) THEN d
    ELSE InsertSentences(InsertSentence(d, a, k - 1, result[k]), a, result,
                         k + 1)

\* transcribe_audio; failAt says which step raises: 0 the analysis of the
\* audio, k the creation of the k-th sentence, a larger number none.  An
\* exception rolls the atomic block back, then the handler sets the status
\* of the article object it holds and saves it.
transcribe_audio(d, a, result, failAt) ==
    LET article == GetArticle(d, a)
        assigned == [article EXCEPT !.content = result]
    IN  IF failAt = 0
        THEN SaveArticle(d, [article EXCEPT
                                !.transcription_status = "failed"])
        ELSE IF failAt <= Len(result)
        THEN SaveArticle(d, [assigned EXCEPT
                                !.transcription_status = "failed"])
        ELSE SaveArticle(InsertSentences(d, a, result, 1),
                         [assigned EXCEPT
                             !.transcription_status = "completed"])

\* analyze_article: the two loops from the m-th word of the k-th sentence
\* on; ok is FALSE when get_or_create raises MultipleObjectsReturned
RECURSIVE AnalyzeLoop(_, _, _, _)
AnalyzeLoop(d, sents, k, m) ==
    IF k > Len(sents) THEN [db |-> d, ok |-> TRUE]
    ELSE IF m > Len(sents[k].content) THEN AnalyzeLoop(d, sents, k + 1, 1)
    ELSE IF Cardinality(WordsWithLemma(d, sents[k].content[m])) > 1
    THEN [db |-> d, ok |-> FALSE]
    ELSE IF WordsWithLemma(d, sents[k].content[m]) = {}
    THEN AnalyzeLoop(AttachWord(InsertWord(d, sents[k].content[m]),
                                d.seq.word + 1, sents[k].id),
                     sents, k, m + 1)
    ELSE AnalyzeLoop(AttachWord(d,
                         (CHOOSE w \in WordsWithLemma(d, sents[k].content[m]) :
                             TRUE).id,
                         sents[k].id),
                     sents, k, m + 1)

\* analyze_article; raises says whether a call of the loop body raises
analyze_article(d, a, raises) ==
    LET article == GetArticle(d, a)
        run == AnalyzeLoop(d, Sentences(d, a), 1, 1)
    IN  IF raises \/ ~run.ok
        THEN SaveArticle(d, [article EXCEPT !.analysis_status = "failed"])
        ELSE SaveArticle(run.db,
                         [article EXCEPT !.analysis_status = "completed"])

\* "if not vocab_item or (not vocab_item.mastered and not
\* vocab_item.ignored)" for VocabularyItem.objects.filter(word=word).first()
NeedsExplanationEither(d, w) ==
    \A it \in d.items : it.word = w => (~it.mastered \/ ~it.ignored)

NeedsExplanation(d, w) ==
    \A it \in d.items : it.word = w => (~it.mastered /\ ~it.ignored)

\* process_article_audio: the words list of one sentence, the lemmas of
\* sentence.words.all() that need an explanation, by id
WordsOf(d, s) ==
    LET ids == {w.id : w \in {x \in d.words :
                                 /\ <<x.id, s>> \in d.links
                                 /\ NeedsExplanation(d, x.id)}}
    IN  [k \in 1 .. Cardinality(ids) |->
            (CHOOSE w \in d.words : w.id = Nth(ids, k)).lemma]

\* process_article_audio: sentences_data
sentences_data(d, a) ==
    [k \in DOMAIN Sentences(d, a) |->
        [sentence |-> Sentences(d, a)[k].id,
         words |-> WordsOf(d, Sentences(d, a)[k].id)]]

\* AudioProcessor._check_word_status: the first VocabularyItem (by id) of a
\* word with this lemma decides
_check_word_status(d, word) ==
    LET found == {it \in d.items :
                     \E w \in d.words : w.id = it.word /\ w.lemma = word}
    IN  \/ found = {}
        \/ LET vocab_item == CHOOSE it \in found :
                                 \A other \in found : it.id <= other.id
           IN  ~vocab_item.mastered /\ ~vocab_item.ignored

\* AudioProcessor.process_sentence: the words of the list that get an
\* explanation inserted
Explained(d, words) ==
    SelectSeq(words, LAMBDA word : _check_word_status(d, word))

\* process_article_audio; raises says whether the processing of the audio
\* raises
process_article_audio(d, a, raises) ==
    SaveArticle(d, [GetArticle(d, a) EXCEPT
                       !.audio_processing_status =
                           IF raises THEN "failed" ELSE "completed"])

\* the status values a task assigns: 'processing' first, then 'completed'
\* at the end of the block or 'failed' in the handler
TrailStuck(ok) == <<"processing">>

Trail(ok) == <<"processing", IF ok THEN "completed" ELSE "failed">>

\* what the log keeps of a task run
TaskLog(op, a, ok, from, passed) ==
    [op |-> op, article |-> a, ok |-> ok, before |-> db, from |-> from,
     trail |-> Trail(ok), passed |-> passed]

TranscribeAudio ==
    /\ started < MaxOps
    /\ started' = started + 1
    /\ \E article \in db.articles, result \in Results :
           \E failAt \in 0 .. Len(result) + 1 :
               /\ db' = transcribe_audio(db, article.id, result, failAt)
               /\ log' = TaskLog("transcribe_audio", article.id,
                                 failAt > Len(result),
                                 article.transcription_status, <<>>)
    /\ UNCHANGED <<requests, Others>>

AnalyzeArticle ==
    /\ started < MaxOps
    /\ started' = started + 1
    /\ \E article \in db.articles, raises \in BOOLEAN :
           /\ db' = analyze_article(db, article.id, raises)
           /\ log' = TaskLog("analyze_article", article.id,
                             /\ ~raises
                             /\ AnalyzeLoop(db, Sentences(db, article.id),
                                            1, 1).ok,
                             article.analysis_status, <<>>)
    /\ UNCHANGED <<requests, Others>>

ProcessArticleAudio ==
    /\ started < MaxOps
    /\ started' = started + 1
    /\ \E article \in db.articles, raises \in BOOLEAN :
           /\ db' = process_article_audio(db, article.id, raises)
           /\ log' = TaskLog("process_article_audio", article.id, ~raises,
                             article.audio_processing_status,
                             sentences_data(db, article.id))
    /\ UNCHANGED <<requests, Others>>

\* VocabularyViewSet.toggle_mastered
ToggleMastered ==
    /\ started < MaxOps
    /\ started' = started + 1
    /\ \E it \in db.items :
           db' = [db EXCEPT !.items = (@ \ {it}) \cup
                                {[it EXCEPT !.mastered = ~it.mastered]}]
    /\ UNCHANGED <<requests, log, Others>>

\* VocabularyViewSet.toggle_ignored
ToggleIgnored ==
    /\ started < MaxOps
    /\ started' = started + 1
    /\ \E it \in db.items :
           db' = [db EXCEPT !.items = (@ \ {it}) \cup
                                {[it EXCEPT !.ignored = ~it.ignored]}]
    /\ UNCHANGED <<requests, log, Others>>

\* requests on MaxRequests threads and task runs, in any interleaving
NextStore ==
    \/ \E p \in 1 .. MaxRequests :
           CreateBegin(p) \/ AnalyzeBegin(p) \/ RequestStep(p)
               \/ RequestRaises(p)
    \/ TranscribeAudio
    \/ AnalyzeArticle

SpecStore == InitStore /\ [][NextStore]_vars

\* the database after one upload that succeeded
Uploaded(result) ==
    LET created == InsertArticle(EmptyDb)
        saved == SaveArticle(created,
                     [GetArticle(created, 1) EXCEPT !.content = result])
        stored == InsertSentences(saved, 1, result, 1)
    IN  AnalyzeLoop(stored, Sentences(stored, 1), 1, 1).db

\* the database after a second upload whose get_or_create for the lemma
\* "x" ran its SELECT before the first upload had inserted the row: a
\* second article with one sentence and a second Word row for "x"
Raced(result) ==
    LET created == InsertArticle(Uploaded(result))
        a == created.seq.article
        saved == SaveArticle(created,
                     [GetArticle(created, a) EXCEPT !.content = << <<"x">> >>])
        stored == InsertSentence(saved, a, 0, <<"x">>)
        word == InsertWord(stored, "x")
    IN  AttachWord(word, word.seq.word, stored.seq.sentence)

InitTasks ==
    /\ pc = "store"
    /\ AlignerIdle
    /\ MapperIdle
    /\ GateIdle
    /\ LoaderIdle
    /\ MatchIdle
    /\ ModelIdle
    /\ \E result \in Results : db \in {Uploaded(result), Raced(result)}
    /\ requests = [p \in 1 .. MaxRequests |-> Idle]
    /\ log = NoLog
    /\ started = 0

NextTasks ==
    \/ TranscribeAudio
    \/ AnalyzeArticle
    \/ ProcessArticleAudio
    \/ ToggleMastered
    \/ ToggleIgnored

SpecTasks == InitTasks /\ [][NextTasks]_vars

----------------------------------------------------------------------------
(* Properties of the persisted state *)

\* C24: if ArticleViewSet.create fails after the Article row was created,
\* the persisted articles, sentences, words and vocabulary items after the
\* 500 response equal those before the request (here: when no other
\* operation has started since).
C24_FailedUploadLeavesNoTrace ==
    (log.op = "create" /\ ~log.ok /\ started = 1)
        => Tables(db) = Tables(log.before)

\* C25: after any interleaving of create requests, analyze requests and
\* analyze_article tasks there is at most one Word row for each lemma.
C25_UniqueWordPerLemma ==
    \A w1, w2 \in db.words : w1.lemma = w2.lemma => w1.id = w2.id

\* C26: after any sequence of create, analyze and transcribe_audio
\* operations the order values of an article's Sentence rows are pairwise
\* distinct.
C26_SentenceOrderIsKey ==
    \A s1, s2 \in db.sentences :
        (s1.article = s2.article /\ s1.order = s2.order) => s1.id = s2.id

\* the three tasks of tasks.py and the status field each of them writes
TaskOps == {"transcribe_audio", "analyze_article", "process_article_audio"}

StatusField(article, op) ==
    IF op = "transcribe_audio" THEN article.transcription_status
    ELSE IF op = "analyze_article" THEN article.analysis_status
    ELSE article.audio_processing_status

C23_FailedTranscriptionChangesOnlyStatus ==
    (log.op = "transcribe_audio" /\ ~log.ok) =>
        /\ db.sentences = log.before.sentences
        /\ db.articles = SaveArticle(log.before,
               [GetArticle(log.before, log.article) EXCEPT
                   !.transcription_status = "failed"]).articles

\* C27: for every sentence of the article, process_article_audio passes the
\* lemma of a Word row of the sentence on exactly when the row has no
\* VocabularyItem or its VocabularyItem is neither mastered nor ignored, it
\* passes nothing else on, and a word whose item is mastered or ignored
\* when the task runs gets no explanation inserted.
C27_MasteredOrIgnoredNeverExplained ==
    log.op = "process_article_audio" =>
        /\ {log.passed[k].sentence : k \in DOMAIN log.passed}
               = {r.id : r \in {x \in log.before.sentences :
                                   x.article = log.article}}
        /\ \A k \in DOMAIN log.passed :
               LET words == log.passed[k].words
                   linked == {w \in log.before.words :
                                 <<w.id, log.passed[k].sentence>>
                                     \in log.before.links}
                   Known(w) == \E it \in log.before.items :
                                   /\ it.word = w.id
                                   /\ (it.mastered \/ it.ignored)
                   explained == Explained(log.before, words)
               IN  /\ \A w \in linked :
                          (\E m \in DOMAIN words : words[m] = w.lemma)
                              <=> ~Known(w)
                   /\ \A m \in DOMAIN words :
                          \E w \in linked : w.lemma = words[m]
                   /\ \A w \in linked :
                          Known(w) => \A m \in DOMAIN explained :
                                          explained[m] # w.lemma

\* the task ran on a sentence with one word toggled to mastered or ignored
\* and one word still to learn
C27_Witness ==
    /\ log.op = "process_article_audio"
    /\ \E k \in DOMAIN log.passed :
           /\ log.passed[k].words # <<>>
           /\ \E it \in log.before.items :
                  /\ it.mastered \/ it.ignored
                  /\ <<it.word, log.passed[k].sentence>> \in log.before.links

====
